---- MODULE Spec2Model ----
(***************************************************************************)
(* Model of specs-bvh (src/src/main.rs): an entity/component world whose   *)
(* update() dispatches CleanSys, VelocitySys, BvhSys and CollideSys, whose *)
(* mouse handler spawns entities and whose draw() renders them.            *)
(*                                                                         *)
(* f32 coordinates are fixed-point integers: one world unit is Scale model *)
(* units.  All sampled inputs are chosen so that every product, quotient   *)
(* and sum the code computes is exact in this representation.              *)
(***************************************************************************)
EXTENDS Integers, Sequences, FiniteSets

\* ------------------------------------------------------------------ bounds
MaxEntities == 3
MaxTicks == 3
MaxSysEntities == 2

\* -------------------------------------------------------- number formats
\* Float (f32) as fixed point: Scale model units per world unit.
Scale == 20
\* rand::random::<f32>() yields k / RandDen for a numerator k in 0..RandDen-1.
RandDen == 1000
\* the timestep literal 0.05 = DtNum / DtDen
DtNum == 1
DtDen == 20

VARIABLES
    nEntities,   \* number of entities created in the World
    position,    \* storage of Position : entity -> [x, y]
    velocity,    \* storage of Velocity : entity -> [x, y]
    geometry,    \* storage of Geometry : entity -> [kind, size]
    collider,    \* storage of Collider : entity -> [colliding]
    bvh,         \* the Bvh resource: leaves of the DBVT in insertion order
    done,        \* systems of the running dispatch that have finished
    ticks,       \* number of completed update() calls
    frame,       \* what the last draw() put on screen : entity -> command
    prev         \* history: Collider flags as CleanSys found them

vars == <<nEntities, position, velocity, geometry, collider, bvh, done, ticks,
          frame, prev>>

\* ------------------------------------------------------------ data types
Vec(x, y) == [x |-> x, y |-> y]

Circle(radius) == [kind |-> "Circle", size |-> radius]

Square(length) == [kind |-> "Square", size |-> length]

ColliderNew == [colliding |-> FALSE]

BvhNew == <<>>

Empty == [i \in {} |-> 0]

\* storage with entity id mapped to value v (EntityBuilder::with)
With(storage, id, v) ==
    [i \in DOMAIN storage \cup {id} |-> IF i = id THEN v ELSE storage[i]]

\* the k-th entity of a join, which iterates in ascending entity id
Nth(J, k) == CHOOSE i \in J : Cardinality({j \in J : j <= i}) = k

\* ----------------------------------------------------- ncollide2d pieces
Ball(radius) == [kind |-> "Ball", half |-> Vec(radius, radius)]

Cuboid(half_extents) == [kind |-> "Cuboid", half |-> half_extents]

\* faulty variant of aabb: the volume enlarged by a margin of one world unit
aabbLoose(shape, iso) ==
    [mins |-> Vec(iso.x - shape.half.x - Scale, iso.y - shape.half.y - Scale),
     maxs |-> Vec(iso.x + shape.half.x + Scale, iso.y + shape.half.y + Scale)]

\* aabb(shape, iso) with a rotation of 0: the centre plus/minus the extents
aabb(shape, iso) ==
    [mins |-> Vec(iso.x - shape.half.x, iso.y - shape.half.y),
     maxs |-> Vec(iso.x + shape.half.x, iso.y + shape.half.y)]

\* faulty variant of intersects: the first comparison strict on the x axis
intersectsStrict(a, b) ==
    /\ a.mins.x < b.maxs.x /\ a.mins.y <= b.maxs.y
    /\ a.maxs.x >= b.mins.x /\ a.maxs.y >= b.mins.y

\* AABB::intersects: mins <= other.maxs and maxs >= other.mins, per axis
intersects(a, b) ==
    /\ a.mins.x <= b.maxs.x /\ a.mins.y <= b.maxs.y
    /\ a.maxs.x >= b.mins.x /\ a.maxs.y >= b.mins.y

\* DBVT::visit with a BoundingVolumeInterferencesCollector: the leaves whose
\* volume intersects bv
collisions(tree, bv) == {k \in 1..Len(tree) : intersects(tree[k], bv)}

\* length / 2.0
Half(length) == length \div 2

\* ------------------------------------------------------------- the systems
Systems == {"clean", "velocity", "bvh", "collide"}

\* faulty variant of Deps: "bvh" registered without its dependency on "velocity"
DepsLoose(s) ==
    CASE s = "clean" -> {}
      [] s = "velocity" -> {"clean"}
      [] s = "bvh" -> {}
      [] s = "collide" -> {"bvh"}

\* DispatcherBuilder::with(system, name, dependencies)
Deps(s) ==
    CASE s = "clean" -> {}
      [] s = "velocity" -> {"clean"}
      [] s = "bvh" -> {"velocity"}
      [] s = "collide" -> {"bvh"}

\* vel * 0.05
TimesDt(v) == (v * DtNum) \div DtDen

\* faulty variant of Clean: the flags are left as they are
CleanNothing(coll) == coll

\* CleanSys::run: every Collider gets colliding = false
Clean(coll) == [i \in DOMAIN coll |-> [colliding |-> FALSE]]

\* faulty variant of Integrate: the velocity added without the timestep
IntegrateNoDt(vel, pos) ==
    [i \in DOMAIN pos |->
        IF i \in DOMAIN vel
        THEN Vec(pos[i].x + vel[i].x, pos[i].y + vel[i].y)
        ELSE pos[i]]

\* VelocitySys::run: the join of Velocity and Position moves by vel * 0.05
Integrate(vel, pos) ==
    [i \in DOMAIN pos |->
        IF i \in DOMAIN vel
        THEN Vec(pos[i].x + TimesDt(vel[i].x), pos[i].y + TimesDt(vel[i].y))
        ELSE pos[i]]

\* faulty variant of BvhBv: a square anchored at its corner instead of its centre
BvhBvCorner(pos, geom) ==
    IF geom.kind = "Circle"
    THEN aabb(Ball(geom.size), pos)
    ELSE aabb(Cuboid(Vec(Half(geom.size), Half(geom.size))),
              Vec(pos.x + Half(geom.size), pos.y + Half(geom.size)))

\* BvhSys::run, the body of the loop: the bounding volume of one entity
BvhBv(pos, geom) ==
    LET shape == IF geom.kind = "Circle"
                 THEN Ball(geom.size)
                 ELSE Cuboid(Vec(Half(geom.size), Half(geom.size)))
    IN aabb(shape, pos)

\* faulty variant of Rebuild: the leaves inserted into the old tree
RebuildKeep(old, pos, geom) ==
    LET J == DOMAIN pos \cap DOMAIN geom
    IN old \o [k \in 1..Cardinality(J) |-> BvhBv(pos[Nth(J, k)], geom[Nth(J, k)])]

\* faulty variant of Rebuild: the join also asks for a Collider
RebuildFlagged(old, pos, geom) ==
    LET J == DOMAIN pos \cap DOMAIN geom \cap DOMAIN collider
    IN BvhNew \o [k \in 1..Cardinality(J) |-> BvhBv(pos[Nth(J, k)], geom[Nth(J, k)])]

\* BvhSys::run: a new Bvh, then one leaf per entity of the join of Position
\* and Geometry
Rebuild(old, pos, geom) ==
    LET J == DOMAIN pos \cap DOMAIN geom
    IN BvhNew \o [k \in 1..Cardinality(J) |-> BvhBv(pos[Nth(J, k)], geom[Nth(J, k)])]

\* CollideSys::run, the body of the loop: the bounding volume queried
CollideBv(pos, geom) ==
    LET shape == IF geom.kind = "Circle"
                 THEN Ball(geom.size)
                 ELSE Cuboid(Vec(Half(geom.size), Half(geom.size)))
    IN aabb(shape, pos)

\* faulty variant of Hit: the entity's own leaf counted as a collision
HitAny(found) == Cardinality(found) > 0

\* if collisions.len() > 1
Hit(found) == Cardinality(found) > 1

\* CollideSys::run: over the join of Position, Geometry and Collider
Collide(tree, pos, geom, coll) ==
    [i \in DOMAIN coll |->
        IF /\ i \in DOMAIN pos \cap DOMAIN geom
           /\ Hit(collisions(tree, CollideBv(pos[i], geom[i])))
        THEN [colliding |-> TRUE]
        ELSE coll[i]]

\* RenderSys::run, the body of the loop: the colour and the outline drawn
Render(pos, geom, coll) ==
    LET color == IF coll.colliding THEN "RED" ELSE "WHITE"
    IN IF geom.kind = "Circle"
       THEN [shape |-> "circle", color |-> color,
             x |-> pos.x, y |-> pos.y, radius |-> geom.size]
       ELSE [shape |-> "rectangle", color |-> color,
             x |-> pos.x - Half(geom.size), y |-> pos.y - Half(geom.size),
             w |-> geom.size, h |-> geom.size]

\* ------------------------------------------------------------ the dispatch
\* a system runs once per dispatch, after the systems it depends on
CanRun(s) ==
    /\ s \notin done
    /\ Deps(s) \subseteq done
    /\ done = {} => ticks < MaxTicks

\* the dispatch returns when its last system has finished
Finished(s) ==
    IF done \cup {s} = Systems
    THEN done' = {} /\ ticks' = ticks + 1
    ELSE done' = done \cup {s} /\ ticks' = ticks

CleanSys ==
    /\ CanRun("clean")
    /\ prev' = [i \in DOMAIN collider |-> collider[i].colliding]
    /\ collider' = Clean(collider)
    /\ Finished("clean")
    /\ UNCHANGED <<nEntities, position, velocity, geometry, bvh, frame>>

VelocitySys ==
    /\ CanRun("velocity")
    /\ position' = Integrate(velocity, position)
    /\ Finished("velocity")
    /\ UNCHANGED <<nEntities, velocity, geometry, collider, bvh, frame, prev>>

BvhSys ==
    /\ CanRun("bvh")
    /\ bvh' = Rebuild(bvh, position, geometry)
    /\ Finished("bvh")
    /\ UNCHANGED <<nEntities, position, velocity, geometry, collider, frame, prev>>

CollideSys ==
    /\ CanRun("collide")
    /\ collider' = Collide(bvh, position, geometry, collider)
    /\ Finished("collide")
    /\ UNCHANGED <<nEntities, position, velocity, geometry, bvh, frame, prev>>

\* MainState::draw: RenderSys over the join of Position, Geometry, Collider
draw ==
    /\ done = {}
    /\ frame' = [i \in DOMAIN position \cap DOMAIN geometry \cap DOMAIN collider |->
                    Render(position[i], geometry[i], collider[i])]
    /\ UNCHANGED <<nEntities, position, velocity, geometry, collider, bvh, done,
                   ticks, prev>>

\* ------------------------------------------------------------------ spawn
\* rand * m for rand = k / RandDen
RandTimes(k, m) == (k * m) \div RandDen

\* faulty variant of SpawnGeometry: the sizes without their minimum
SpawnGeometryNoMin(random, size) ==
    IF random * 2 < RandDen
    THEN Circle(RandTimes(size, 20 * Scale))
    ELSE Square(RandTimes(size, 40 * Scale))

\* the geometry a spawn draws: a circle if random < 0.5, else a square
SpawnGeometry(random, size) ==
    IF random * 2 < RandDen
    THEN Circle(RandTimes(size, 20 * Scale) + 10 * Scale)
    ELSE Square(RandTimes(size, 40 * Scale) + 20 * Scale)

\* the velocity a spawn draws
SpawnVelocity(rx, ry) ==
    LET speed == 16 * Scale
    IN Vec(RandTimes(rx, speed) - speed \div 2, RandTimes(ry, speed) - speed \div 2)

\* where the handler takes the next entity from: create_entity().build()
SpawnId(n) == n + 1

mouse_button_down_event(x, y, rx, ry, random, size) ==
    /\ done = {}
    /\ nEntities < MaxEntities
    /\ LET id == SpawnId(nEntities)
       IN /\ nEntities' = nEntities + 1
          /\ geometry' = With(geometry, id, SpawnGeometry(random, size))
          /\ velocity' = With(velocity, id, SpawnVelocity(rx, ry))
          /\ position' = With(position, id, Vec(x * Scale, y * Scale))
          /\ collider' = With(collider, id, ColliderNew)
    /\ UNCHANGED <<bvh, done, ticks, frame, prev>>

\* sampled inputs of the handler: <<x, y, rx, ry, random, size>>, the click and
\* the numerators of the four random draws
SpawnInputs ==
    { <<140, 100, 875, 500, 0, 515>>,    \* circle 20.3, velocity (6, 0)
      <<130, 130, 500, 500, 0, 0>>,      \* circle 10, velocity (0, 0)
      <<130, 130, 875, 500, 0, 515>>,    \* circle 20.3, velocity (6, 0)
      <<140, 100, 500, 500, 500, 0>>,    \* square 20, velocity (0, 0)
      <<140, 100, 875, 500, 500, 515>>,  \* square 40.6, velocity (6, 0)
      <<130, 130, 0, 0, 500, 0>> }       \* square 20, velocity (-8, -8)

Spawn ==
    \E in \in SpawnInputs :
        mouse_button_down_event(in[1], in[2], in[3], in[4], in[5], in[6])

\* ------------------------------------------------------- the specification
\* MainState::new
Init ==
    /\ nEntities = 1
    /\ position = With(Empty, 1, Vec(100 * Scale, 100 * Scale))
    /\ velocity = Empty
    /\ geometry = With(Empty, 1, Circle(20 * Scale))
    /\ collider = With(Empty, 1, ColliderNew)
    /\ bvh = BvhNew
    /\ done = {}
    /\ ticks = 0
    /\ frame = Empty
    /\ prev = Empty

Next == CleanSys \/ VelocitySys \/ BvhSys \/ CollideSys \/ draw \/ Spawn

Spec == Init /\ [][Next]_vars

\* ---------------------------------------- the systems as functions of a world
\* sampled component values for worlds given to the systems directly
SysPositions == {Vec(100 * Scale, 100 * Scale), Vec(130 * Scale, 130 * Scale)}

SysVelocities == {Vec(6 * Scale, 0)}

SysGeometries == {Circle(20 * Scale), Square(30 * Scale)}

SysColliders == {ColliderNew}

\* every storage over entities 1..n with values in S: any subset may carry it
Storages(n, S) == UNION {[D -> S] : D \in SUBSET (1..n)}

InitSys ==
    /\ nEntities \in 1..MaxSysEntities
    /\ position \in Storages(nEntities, SysPositions)
    /\ velocity \in Storages(nEntities, SysVelocities)
    /\ geometry \in Storages(nEntities, SysGeometries)
    /\ collider \in Storages(nEntities, SysColliders)
    /\ bvh = BvhNew
    /\ done = {}
    /\ ticks = 0
    /\ frame = Empty
    /\ prev = Empty

NextSys == CleanSys \/ VelocitySys \/ BvhSys \/ CollideSys \/ draw

SpecSys == InitSys /\ [][NextSys]_vars

\* ===================================================================== claims
\* The claims' own vocabulary, written from their wording.  Boxes are kept
\* doubled (2 * coordinate) so that a square's half side needs no division.

\* the doubled bounding box of geometry g centred at c
Box2(c, g) ==
    LET e == IF g.kind = "Circle" THEN 2 * g.size ELSE g.size
    IN [x0 |-> 2 * c.x - e, x1 |-> 2 * c.x + e,
        y0 |-> 2 * c.y - e, y1 |-> 2 * c.y + e]

\* the doubled extents of an index leaf
Leaf2(b) ==
    [x0 |-> 2 * b.mins.x, x1 |-> 2 * b.maxs.x,
     y0 |-> 2 * b.mins.y, y1 |-> 2 * b.maxs.y]

\* closed intervals [a0, a1] and [b0, b1] share a point
Meet(a0, a1, b0, b1) == \E t \in {a0, b0} : a0 <= t /\ t <= a1 /\ b0 <= t /\ t <= b1

\* two boxes overlap iff their projections on both axes overlap
Overlap(p, q) == Meet(p.x0, p.x1, q.x0, q.x1) /\ Meet(p.y0, p.y1, q.y0, q.y1)

\* entities that have a box, and those that also carry a flag
Boxed(pos, geom) == DOMAIN pos \cap DOMAIN geom

Flagged(pos, geom, coll) == DOMAIN pos \cap DOMAIN geom \cap DOMAIN coll

\* some other boxed entity overlaps entity i
OverlapsOther(pos, geom, i) ==
    \E j \in Boxed(pos, geom) \ {i} :
        Overlap(Box2(pos[i], geom[i]), Box2(pos[j], geom[j]))

\* how many leaves of the index overlap the box of entity i
Returned(tree, pos, geom, i) ==
    Cardinality({k \in 1..Len(tree) : Overlap(Leaf2(tree[k]), Box2(pos[i], geom[i]))})

\* the step on which update()'s dispatch returns
TickEnds == done # {} /\ done' = {}

\* a state a complete tick has just left (no spawn since)
AfterTick == done = {} /\ ticks > 0 /\ Len(bvh) = Cardinality(Boxed(position, geometry))

\* C1: after every complete tick, an entity with Position, Geometry and
\* Collider is flagged iff the index returns more than one box for its box,
\* i.e. iff some other boxed entity's box overlaps its box (closed intervals).
C1_FlagIffOverlap ==
    [][TickEnds =>
        \A i \in Flagged(position', geometry', collider') :
            /\ collider'[i].colliding <=> Returned(bvh', position', geometry', i) > 1
            /\ collider'[i].colliding <=> OverlapsOther(position', geometry', i)]_vars

\* C1 witness: a tick has ended with one entity flagged by an edge-touching
\* neighbour and another entity left unflagged
C1_Witness ==
    /\ AfterTick
    /\ \E i, j \in Flagged(position, geometry, collider) :
        /\ collider[i].colliding /\ ~collider[j].colliding
        /\ \E k \in Boxed(position, geometry) \ {i} :
            /\ Overlap(Box2(position[i], geometry[i]), Box2(position[k], geometry[k]))
            /\ Box2(position[i], geometry[i]).x1 = Box2(position[k], geometry[k]).x0

\* the two circles of a world of exactly two entities, both circles with
\* Position, Geometry and Collider
TwoCircles(pos, geom, coll) ==
    /\ nEntities' = 2
    /\ Flagged(pos, geom, coll) = {1, 2}
    /\ geom[1].kind = "Circle" /\ geom[2].kind = "Circle"

Sq(n) == n * n

Abs(n) == IF n < 0 THEN -n ELSE n

\* |c1 - c2| <= r1 + r2, squared
WithinEuclid(pos, geom) ==
    Sq(pos[1].x - pos[2].x) + Sq(pos[1].y - pos[2].y) <= Sq(geom[1].size + geom[2].size)

\* |c1.x - c2.x| <= r1 + r2 and |c1.y - c2.y| <= r1 + r2
WithinPerAxis(pos, geom) ==
    /\ Abs(pos[1].x - pos[2].x) <= geom[1].size + geom[2].size
    /\ Abs(pos[1].y - pos[2].y) <= geom[1].size + geom[2].size

\* C2 as stated: in a world of exactly two circles, after a tick both are
\* flagged iff the Euclidean distance of the centres is at most r1 + r2.
C2_EuclidOracle ==
    [][TickEnds /\ TwoCircles(position', geometry', collider') =>
        \A i \in {1, 2} :
            collider'[i].colliding <=> WithinEuclid(position', geometry')]_vars

\* C2 amended: in a world of exactly two circles, after a tick both are
\* flagged iff the centres differ by at most r1 + r2 on each axis separately;
\* a Euclidean distance of at most r1 + r2 is sufficient for the flags but
\* not necessary.
C2_PerAxisOracle ==
    [][TickEnds /\ TwoCircles(position', geometry', collider') =>
        \A i \in {1, 2} :
            /\ collider'[i].colliding <=> WithinPerAxis(position', geometry')
            /\ WithinEuclid(position', geometry') => collider'[i].colliding]_vars

\* C2 witness: two circles flagged after a tick although their centres are
\* farther apart than r1 + r2
C2_Witness ==
    /\ AfterTick
    /\ nEntities = 2
    /\ Flagged(position, geometry, collider) = {1, 2}
    /\ geometry[1].kind = "Circle" /\ geometry[2].kind = "Circle"
    /\ collider[1].colliding /\ collider[2].colliding
    /\ ~WithinEuclid(position, geometry)

\* C3: an entity flagged at the end of one tick whose box overlaps no other
\* box at the positions of the next tick is unflagged at the end of that next
\* tick; prev holds the flags the tick started from.
C3_NoCarryOver ==
    done = {} =>
        \A i \in DOMAIN prev \cap Flagged(position, geometry, collider) :
            prev[i] /\ ~OverlapsOther(position, geometry, i) => ~collider[i].colliding

\* C3 witness: a second tick has ended with an entity unflagged that the
\* first tick had flagged
C3_Witness ==
    /\ AfterTick
    /\ ticks >= 2
    /\ \E i \in DOMAIN prev :
        prev[i] /\ ~collider[i].colliding /\ ~OverlapsOther(position, geometry, i)

\* C4: at the end of a tick, if A is flagged and A's box overlaps B's box,
\* then B is flagged too, for every pair of flag-carrying entities.
C4_Symmetry ==
    [][TickEnds =>
        \A a, b \in Flagged(position', geometry', collider') :
            /\ a # b
            /\ collider'[a].colliding
            /\ Overlap(Box2(position'[a], geometry'[a]), Box2(position'[b], geometry'[b]))
            => collider'[b].colliding]_vars

\* C4 witness: a tick has ended with two overlapping entities both flagged
\* and a third entity in the world
C4_Witness ==
    /\ AfterTick
    /\ nEntities = 3
    /\ \E a, b \in Flagged(position, geometry, collider) :
        /\ a # b
        /\ collider[a].colliding /\ collider[b].colliding
        /\ Overlap(Box2(position[a], geometry[a]), Box2(position[b], geometry[b]))

\* the steps on which one system of the dispatch finishes
VelocityStep == "velocity" \notin done /\ "velocity" \in done'

BvhStep == "bvh" \notin done /\ "bvh" \in done'

CollideStep ==
    /\ done' # done
    /\ "collide" \notin done
    /\ done' = done \cup {"collide"} \/ done \cup {"collide"} = Systems

\* C5: within a tick the steps run once each in the order reset, integrate,
\* rebuild, query; the query finds the index populated from the integrated
\* positions; entities are only added between ticks.
C5_StrictOrder ==
    [][/\ done' # done =>
            \/ done = {} /\ done' = {"clean"}
            \/ done = {"clean"} /\ done' = {"clean", "velocity"}
            \/ done = {"clean", "velocity"} /\ done' = {"clean", "velocity", "bvh"}
            \/ done = {"clean", "velocity", "bvh"} /\ done' = {}
       /\ CollideStep =>
            /\ {"velocity", "bvh"} \subseteq done
            /\ Len(bvh) = Cardinality(Boxed(position, geometry))
            /\ \A i \in Boxed(position, geometry) :
                \E k \in 1..Len(bvh) : Leaf2(bvh[k]) = Box2(position[i], geometry[i])
       /\ nEntities' # nEntities => done = {} /\ done' = {}]_vars

\* C5 witness: the query step is about to run on an index that holds a moved
\* entity
C5_Witness ==
    /\ done = {"clean", "velocity", "bvh"}
    /\ Len(bvh) >= 2
    /\ \E i \in DOMAIN velocity : position[i].x % Scale # 0

\* the doubled extents of what draw() put on screen
Drawn2(cmd) ==
    IF cmd.shape = "circle"
    THEN [x0 |-> 2 * (cmd.x - cmd.radius), x1 |-> 2 * (cmd.x + cmd.radius),
          y0 |-> 2 * (cmd.y - cmd.radius), y1 |-> 2 * (cmd.y + cmd.radius)]
    ELSE [x0 |-> 2 * cmd.x, x1 |-> 2 * (cmd.x + cmd.w),
          y0 |-> 2 * cmd.y, y1 |-> 2 * (cmd.y + cmd.h)]

\* C6: the box of Circle(r) at c is [c.x-r, c.x+r] x [c.y-r, c.y+r] and of
\* Square(s) is [c.x-s/2, c.x+s/2] x [c.y-s/2, c.y+s/2]; the build step stores
\* that box, the query step computes the same box, and what is drawn has the
\* same extents.
C6_SameBox ==
    [][/\ BvhStep =>
            LET J == Boxed(position', geometry')
            IN /\ Len(bvh') = Cardinality(J)
               /\ \A k \in 1..Len(bvh') :
                    LET i == Nth(J, k)
                    IN /\ Leaf2(bvh'[k]) = Box2(position'[i], geometry'[i])
                       /\ bvh'[k] = CollideBv(position'[i], geometry'[i])
       /\ frame' # frame =>
            \A i \in DOMAIN frame' :
                /\ Drawn2(frame'[i]) = Box2(position[i], geometry[i])
                /\ Leaf2(CollideBv(position[i], geometry[i])) = Drawn2(frame'[i])]_vars

\* C6 witness: the index has been rebuilt with a square in it, and a square
\* is on screen
C6_Witness ==
    /\ "bvh" \in done
    /\ \E k \in 1..Len(bvh), i \in Boxed(position, geometry) :
        geometry[i].kind = "Square" /\ Leaf2(bvh[k]) = Box2(position[i], geometry[i])
    /\ \E i \in DOMAIN frame : frame[i].shape = "rectangle"

\* C7: a step of a tick leaves Velocity, Geometry and the set of entities as
\* they are; only the integration step changes positions, each entity with a
\* Velocity by exactly velocity times the timestep, the others not at all.
C7_TickFrame ==
    [][done' # done =>
        /\ velocity' = velocity
        /\ geometry' = geometry
        /\ nEntities' = nEntities
        /\ DOMAIN position' = DOMAIN position
        /\ DOMAIN collider' = DOMAIN collider
        /\ \A i \in DOMAIN position :
            IF VelocityStep /\ i \in DOMAIN velocity
            THEN /\ DtDen * (position'[i].x - position[i].x) = DtNum * velocity[i].x
                 /\ DtDen * (position'[i].y - position[i].y) = DtNum * velocity[i].y
            ELSE position'[i] = position[i]]_vars

\* C7 witness: after two ticks an entity with a Velocity has moved by twice
\* its step and the entity without a Velocity is where it was created
C7_Witness ==
    /\ AfterTick
    /\ ticks = 2
    /\ 1 \notin DOMAIN velocity
    /\ position[1] = Vec(100 * Scale, 100 * Scale)
    /\ \E i \in DOMAIN velocity :
        /\ velocity[i].x # 0
        /\ DtDen * (position[i].x - 140 * Scale) = 2 * DtNum * velocity[i].x

\* C8: after the build step the index holds exactly one box per entity with
\* Position and Geometry and nothing else
C8_FreshIndex ==
    "bvh" \in done =>
        /\ Len(bvh) = Cardinality(Boxed(position, geometry))
        /\ \A i \in Boxed(position, geometry) :
            Cardinality({k \in 1..Len(bvh) : Leaf2(bvh[k]) = Box2(position[i], geometry[i])})
              = Cardinality({j \in Boxed(position, geometry) :
                    Box2(position[j], geometry[j]) = Box2(position[i], geometry[i])})

\* C8 witness: the index has been rebuilt in a later tick, after an entity
\* whose box the earlier tick had indexed has moved
C8_Witness ==
    /\ "bvh" \in done
    /\ ticks >= 1
    /\ Len(bvh) = 3
    /\ \E i \in DOMAIN velocity :
        velocity[i].x # 0 /\ (position[i].x - TimesDt(velocity[i].x)) % Scale # 0

\* C9: an entity with Position and Geometry but no Collider has a leaf in the
\* index, flags every flag-carrying entity whose box overlaps its box, and
\* gets no flag itself and is not drawn.
C9_Flagless ==
    [][/\ TickEnds =>
            \A j \in Boxed(position', geometry') \ DOMAIN collider' :
                /\ \E k \in 1..Len(bvh') : Leaf2(bvh'[k]) = Box2(position'[j], geometry'[j])
                /\ \A i \in Flagged(position', geometry', collider') :
                    Overlap(Box2(position'[i], geometry'[i]), Box2(position'[j], geometry'[j]))
                    => collider'[i].colliding
       /\ DOMAIN collider' = DOMAIN collider
       /\ DOMAIN frame' \subseteq DOMAIN collider]_vars

\* C9 witness: a tick has ended with an entity flagged whose only neighbours
\* carry no Collider, and a frame has been drawn
C9_Witness ==
    /\ AfterTick
    /\ \E i \in Flagged(position, geometry, collider) :
        /\ collider[i].colliding
        /\ Boxed(position, geometry) \ {i} # {}
        /\ Boxed(position, geometry) \cap DOMAIN collider = {i}
        /\ i \in DOMAIN frame

\* C10: entities are only ever added, one per spawn, with Position at the
\* click, a Velocity, a Geometry of positive size and Collider = false, while
\* the existing entities keep every attribute; every Geometry has size > 0.
C10_AppendOnly ==
    /\ [](\A i \in DOMAIN geometry : geometry[i].size > 0)
    /\ [][/\ nEntities' >= nEntities
          /\ DOMAIN position \subseteq DOMAIN position'
          /\ DOMAIN velocity \subseteq DOMAIN velocity'
          /\ DOMAIN geometry \subseteq DOMAIN geometry'
          /\ DOMAIN collider \subseteq DOMAIN collider'
          /\ nEntities' # nEntities =>
                LET id == nEntities'
                IN /\ nEntities' = nEntities + 1
                   /\ DOMAIN position' = DOMAIN position \cup {id}
                   /\ DOMAIN velocity' = DOMAIN velocity \cup {id}
                   /\ DOMAIN geometry' = DOMAIN geometry \cup {id}
                   /\ DOMAIN collider' = DOMAIN collider \cup {id}
                   /\ id \notin DOMAIN position \cup DOMAIN collider
                   /\ \E in \in SpawnInputs :
                        position'[id] = Vec(in[1] * Scale, in[2] * Scale)
                   /\ geometry'[id].size > 0
                   /\ collider'[id].colliding = FALSE
                   /\ \A i \in DOMAIN position : position'[i] = position[i]
                   /\ \A i \in DOMAIN velocity : velocity'[i] = velocity[i]
                   /\ \A i \in DOMAIN geometry : geometry'[i] = geometry[i]
                   /\ \A i \in DOMAIN collider : collider'[i] = collider[i]]_vars

\* C10 witness: two spawns and a tick later the world holds three entities,
\* a circle and a square among the spawned ones
C10_Witness ==
    /\ nEntities = 3
    /\ ticks >= 1
    /\ DOMAIN geometry = {1, 2, 3}
    /\ {geometry[2].kind, geometry[3].kind} = {"Circle", "Square"}

====
